---- MODULE Spec2Model ----
(***************************************************************************)
(* Model of src/main.go: a command-line restaurant ordering program that   *)
(* keeps a menu and customers in two MongoDB collections.                  *)
(*                                                                         *)
(* The store is modelled as two sequences of documents in insertion        *)
(* (natural) order.  FindOne and UpdateOne act on the first document that  *)
(* matches the filter.  Amounts are float64; they are modelled exactly, as *)
(* integers counted in units of 2^-45 and kept in two limbs of 30 bits,    *)
(* with IEEE-754 round-to-nearest-even to 53 significant bits after each   *)
(* operation.  Item names and input lines are sequences of characters, so  *)
(* that strings.TrimSpace and strings.ToLower do real work.                *)
(*                                                                         *)
(* Three specifications share the actions:                                 *)
(*   Spec      the program (main) run MaxRuns times, one run after another *)
(*   SpecApi   one caller invoking the functions with arbitrary arguments  *)
(*   SpecConc  two runs of the program at the same time on the same store  *)
(* Errors of the database driver (the log.Fatal paths) are not modelled.   *)
(***************************************************************************)
EXTENDS Integers, Sequences, FiniteSets, TLC

(* ---------------------------- bounds ----------------------------------- *)
\* runs of the program in Spec
MaxRuns == 2
\* orders accepted, or on their way to be, in the whole store
MaxItems == 3
\* the same, when two runs of the program overlap (SpecConc)
MaxConcItems == 2
\* customer documents inserted by the caller of SpecApi
MaxCustomers == 1
\* menu seedings performed by the caller of SpecApi
MaxSeeds == 1

Procs == 1 .. MaxRuns
ConcProcs == {1, 2}

(* ---------------------------- float64 ---------------------------------- *)
Base == 2 ^ 30

F(h, l) == [hi |-> h, lo |-> l]

Zero == F(0, 0)

\* exact sum of two amounts (no rounding)
AddExact(a, b) ==
    LET s == a.lo + b.lo
    IN  F(a.hi + b.hi + (s \div Base), s % Base)

RECURSIVE MulExact(_, _)
\* exact product of an amount and a small non-negative integer
MulExact(a, c) == IF c = 0 THEN Zero ELSE AddExact(a, MulExact(a, c - 1))

RECURSIVE BitLen(_)
BitLen(n) == IF n = 0 THEN 0 ELSE 1 + BitLen(n \div 2)

\* round-to-nearest-even to a 53 bit significand
Round53(a) ==
    LET s == BitLen(a.hi) - 23
    IN  IF s <= 0 THEN a
        ELSE LET m    == 2 ^ s
                 low  == a.lo % m
                 q    == a.lo \div m
                 half == m \div 2
                 up   == low > half \/ (low = half /\ q % 2 = 1)
                 lo2  == a.lo - low + (IF up THEN m ELSE 0)
             IN  F(a.hi + (lo2 \div Base), lo2 % Base)

\* totalAmount += menuItem.Price * float64(count), product rounded, then sum
AccumulateSeparate(acc, price, count) ==
    Round53(AddExact(acc, Round53(MulExact(price, count))))

\* the same statement compiled to a fused multiply-add: one rounding
AccumulateFused(acc, price, count) ==
    Round53(AddExact(acc, MulExact(price, count)))

Accumulate(fma, acc, price, count) ==
    IF fma THEN AccumulateFused(acc, price, count)
    ELSE AccumulateSeparate(acc, price, count)

(* ---------------------------- strings ---------------------------------- *)
Whitespace == {" ", "\t", "\n", "\r"}

Upper == <<"A","B","C","D","E","F","G","H","I","J","K","L","M",
           "N","O","P","Q","R","S","T","U","V","W","X","Y","Z">>
Lower == <<"a","b","c","d","e","f","g","h","i","j","k","l","m",
           "n","o","p","q","r","s","t","u","v","w","x","y","z">>

LowerChar(c) ==
    IF \E i \in 1 .. Len(Upper) : Upper[i] = c
    THEN Lower[CHOOSE i \in 1 .. Len(Upper) : Upper[i] = c]
    ELSE c

ToLower(s) == [i \in 1 .. Len(s) |-> LowerChar(s[i])]

RECURSIVE TrimLeft(_)
TrimLeft(s) ==
    IF s # <<>> /\ Head(s) \in Whitespace THEN TrimLeft(Tail(s)) ELSE s

RECURSIVE TrimRight(_)
TrimRight(s) ==
    IF s # <<>> /\ s[Len(s)] \in Whitespace
    THEN TrimRight(SubSeq(s, 1, Len(s) - 1)) ELSE s

TrimSpace(s) == TrimRight(TrimLeft(s))

Done == <<"d","o","n","e">>

\* faulty variant: the sentinel compared without strings.ToLower
IsSentinelExact(name) == name = Done

\* the test of PlaceOrder that ends the ordering loop
IsSentinel(name) == ToLower(name) = Done

(* ---------------------------- menu data -------------------------------- *)
Pizza    == <<"P","i","z","z","a">>
Burger   == <<"B","u","r","g","e","r">>
Pasta    == <<"P","a","s","t","a">>
Salad    == <<"S","a","l","a","d">>
Sushi    == <<"S","u","s","h","i">>
Sandwich == <<"S","a","n","d","w","i","c","h">>
Tacos    == <<"T","a","c","o","s">>
Steak    == <<"S","t","e","a","k">>
Fries    == <<"F","r","i","e","s">>
IceCream == <<"I","c","e"," ","C","r","e","a","m">>

MenuItem(n, p) == [name |-> n, price |-> p]

\* the float64 nearest to each decimal literal of AddMenuItems
menuItems == <<
    MenuItem(Pizza,    F(27170242, 601295420)),   \*  829.17
    MenuItem(Burger,   F(16291266, 601295422)),   \*  497.17
    MenuItem(Pasta,    F(21730754, 601295420)),   \*  663.17
    MenuItem(Salad,    F(13571522, 601295422)),   \*  414.17
    MenuItem(Sushi,    F(35329474, 601295424)),   \* 1078.17
    MenuItem(Sandwich, F(10851778, 601295422)),   \*  331.17
    MenuItem(Tacos,    F(19011010, 601295420)),   \*  580.17
    MenuItem(Steak,    F(43488706, 601295424)),   \* 1327.17
    MenuItem(Fries,    F(8132034,  601295421)),   \*  248.17
    MenuItem(IceCream, F(9519104,  0)) >>         \*  290.50

Customer(n, ph) ==
    [name |-> n, phone |-> ph, orderedItems |-> <<>>, totalAmount |-> Zero]

SampleCustomer == "Gadapa Raghavendra"
SamplePhone == "1234567890"

(* ---------------------------- inputs ----------------------------------- *)
Waffles == <<"W","a","f","f","l","e","s">>

\* lines a user may type
InputLines == {
    Pizza \o <<"\n">>,
    Burger \o <<"\n">>,
    <<" ">> \o Pasta \o <<" ", "\r", "\n">>,
    Waffles \o <<"\n">>,
    <<"p","i","z","z","a","\n">>,
    <<"d","o","n","e","\n">>,
    <<" ","D","o","N","e","\t","\n">> }

\* names passed to OrderItem, PlaceOrder and CalculateAndStoreTotal
CustomerArgs == {SampleCustomer, "Ana"}
\* names passed to AddCustomer: "Ana" is never registered
RegisteredArgs == {SampleCustomer}
ItemArgs == {Pizza, Burger, Pasta, Waffles, <<>>}

(* ---------------------------- store ------------------------------------ *)
Matches(coll, n) == {i \in 1 .. Len(coll) : coll[i].name = n}

\* index of the first document whose name is n, 0 when none (ErrNoDocuments)
FindOne(coll, n) ==
    IF Matches(coll, n) = {} THEN 0
    ELSE CHOOSE i \in Matches(coll, n) : \A j \in Matches(coll, n) : i <= j

\* faulty variant: the item is put in front
PushFront(items, x) == <<x>> \o items

\* faulty variant: $set instead of $push, the array is replaced
PushOverwrite(items, x) == <<x>>

\* $push of one value to an array field
Push(items, x) == Append(items, x)

Range(s) == {s[i] : i \in DOMAIN s}

Occurrences(items, n) == Cardinality({i \in DOMAIN items : items[i] = n})

\* itemCounts as built by the first loop of CalculateAndStoreTotal
CountItems(items) == [n \in Range(items) |-> Occurrences(items, n)]

(* ---------------------------- state ------------------------------------ *)
VARIABLES
    menu,          \* collection "menu": sequence of MenuItem documents
    customers,     \* collection "customers": sequence of Customer documents
    fused,         \* the build compiles the accumulation to a fused multiply-add
    pc,            \* per process: the statement it is at
    stack,         \* per process: return addresses of the calls in progress
    customerName,  \* per process: argument customerName / name
    itemName,      \* per process: itemName of PlaceOrder and OrderItem
    eof,           \* per process: standard input is exhausted
    customer,      \* per process: document decoded by CalculateAndStoreTotal
    itemCounts,    \* per process: map itemCounts
    pending,       \* per process: keys of itemCounts the range loop has yet to visit
    totalAmount,   \* per process: local totalAmount
    report,        \* per process: the last line printed
    accepted,      \* history, per customer name: the items of the orders stored
    session,       \* history, per process: the current PlaceOrder call
    calc,          \* history, per process: the last CalculateAndStoreTotal
    prevCalc       \* history: customer of the call just completed, if it was
                   \* CalculateAndStoreTotal and nothing ran since

storeVars == <<menu, customers>>
calcVars == <<customer, itemCounts, pending, totalAmount>>
histVars == <<accepted, session, calc, prevCalc>>
vars == <<menu, customers, fused, pc, stack, customerName, itemName, eof,
          customer, itemCounts, pending, totalAmount, report,
          accepted, session, calc, prevCalc>>

NoCustomer == ""
NoSession == [active |-> FALSE, sentinel |-> FALSE, calcs |-> 0, from |-> 0]
NoCalc == [readIdx |-> 0, readItems |-> <<>>, storedAtWrite |-> <<>>]

Init ==
    /\ menu = <<>>
    /\ customers = <<>>
    /\ fused \in BOOLEAN
    /\ pc = [p \in Procs |-> "idle"]
    /\ stack = [p \in Procs |-> <<>>]
    /\ customerName = [p \in Procs |-> NoCustomer]
    /\ itemName = [p \in Procs |-> <<>>]
    /\ eof = [p \in Procs |-> FALSE]
    /\ customer = [p \in Procs |-> <<>>]
    /\ itemCounts = [p \in Procs |-> <<>>]
    /\ pending = [p \in Procs |-> {}]
    /\ totalAmount = [p \in Procs |-> Zero]
    /\ report = [p \in Procs |-> ""]
    /\ accepted = [n \in CustomerArgs |-> <<>>]
    /\ session = [p \in Procs |-> NoSession]
    /\ calc = [p \in Procs |-> NoCalc]
    /\ prevCalc = NoCustomer

\* the customer document that a lookup by name resolves to
Record(name) == customers[FindOne(customers, name)]

Registered(name) == FindOne(customers, name) # 0

\* return from the function in progress to the statement after its call
Return(p) ==
    /\ pc' = [pc EXCEPT ![p] = Head(stack[p])]
    /\ stack' = [stack EXCEPT ![p] = Tail(stack[p])]

\* call the function whose first statement is entry
Call(p, entry, ret) ==
    /\ pc' = [pc EXCEPT ![p] = entry]
    /\ stack' = [stack EXCEPT ![p] = <<ret>> \o stack[p]]

(* ---------------------------- functions -------------------------------- *)
\* the ten InsertOne calls as one step: the documents of a name all carry the
\* same price, so the order in which two seedings interleave is not observable
AddMenuItems(p) ==
    /\ pc[p] = "AddMenuItems"
    /\ menu' = menu \o menuItems
    /\ report' = [report EXCEPT ![p] = "Menu items added to the database!"]
    /\ prevCalc' = NoCustomer
    /\ Return(p)
    /\ UNCHANGED <<customers, fused, customerName, itemName, eof, calcVars,
                   accepted, session, calc>>

AddCustomer(p) ==
    /\ pc[p] = "AddCustomer"
    /\ customers' = Append(customers, Customer(customerName[p], SamplePhone))
    /\ report' = [report EXCEPT ![p] = "Customer added"]
    /\ prevCalc' = NoCustomer
    /\ Return(p)
    /\ UNCHANGED <<menu, fused, customerName, itemName, eof, calcVars,
                   accepted, session, calc>>

\* orders accepted so far or that a process is about to store
RECURSIVE SumLen(_, _)
SumLen(f, names) ==
    IF names = {} THEN 0
    ELSE LET n == CHOOSE x \in names : TRUE
         IN  Len(f[n]) + SumLen(f, names \ {n})

Committed ==
    SumLen(accepted, CustomerArgs)
    + Cardinality({q \in Procs : /\ pc[q] \in {"OrderItem", "OrderItem122"}
                                 /\ FindOne(menuItems, itemName[q]) # 0})

\* what reader.ReadString('\n') may return
ReadString(p) ==
    IF eof[p] THEN {<<>>} ELSE InputLines \cup {<<>>}

EndsInput(line) == line = <<>> \/ line[Len(line)] # "\n"

\* faulty variant: the loop ends without the call of CalculateAndStoreTotal
PlaceOrderReadNoTotal(p, cap) ==
    /\ pc[p] = "PlaceOrder"
    /\ \E line \in ReadString(p) :
         LET name == TrimSpace(line) IN
         /\ eof' = [eof EXCEPT ![p] = EndsInput(line)]
         /\ itemName' = [itemName EXCEPT ![p] = name]
         /\ IF IsSentinel(name)
            THEN /\ pc' = [pc EXCEPT ![p] = "PlaceOrder150"]
                 /\ UNCHANGED stack
                 /\ session' = [session EXCEPT ![p].sentinel = TRUE]
            ELSE /\ FindOne(menuItems, name) # 0 => Committed < cap
                 /\ Call(p, "OrderItem", "PlaceOrder")
                 /\ UNCHANGED session
    /\ report' = [report EXCEPT ![p] = "Enter the name of the item"]
    /\ UNCHANGED <<storeVars, fused, customerName, calcVars, accepted, calc,
                   prevCalc>>

\* one iteration of the loop of PlaceOrder, up to the break or the call
PlaceOrderRead(p, cap) ==
    /\ pc[p] = "PlaceOrder"
    /\ \E line \in ReadString(p) :
         LET name == TrimSpace(line) IN
         /\ eof' = [eof EXCEPT ![p] = EndsInput(line)]
         /\ itemName' = [itemName EXCEPT ![p] = name]
         /\ IF IsSentinel(name)
            THEN /\ Call(p, "CalculateAndStoreTotal", "PlaceOrder150")
                 /\ session' = [session EXCEPT ![p].sentinel = TRUE]
            ELSE /\ FindOne(menuItems, name) # 0 => Committed < cap
                 /\ Call(p, "OrderItem", "PlaceOrder")
                 /\ UNCHANGED session
    /\ report' = [report EXCEPT ![p] = "Enter the name of the item"]
    /\ UNCHANGED <<storeVars, fused, customerName, calcVars, accepted, calc,
                   prevCalc>>

PlaceOrderReturn(p) ==
    /\ pc[p] = "PlaceOrder150"
    /\ Return(p)
    /\ session' = [session EXCEPT ![p] = NoSession]
    /\ calc' = [calc EXCEPT ![p] = NoCalc]
    /\ UNCHANGED <<storeVars, fused, customerName, itemName, eof, calcVars,
                   report, accepted, prevCalc>>

\* faulty variant: the result of the menu lookup is ignored
OrderItemFindAny(p) ==
    /\ pc[p] = "OrderItem"
    /\ pc' = [pc EXCEPT ![p] = "OrderItem122"]
    /\ prevCalc' = NoCustomer
    /\ UNCHANGED <<storeVars, fused, stack, customerName, itemName, eof,
                   calcVars, report, accepted, session, calc>>

\* faulty variant: the menu lookup ignores the case of the letters
OrderItemFindNoCase(p) ==
    /\ pc[p] = "OrderItem"
    /\ IF \A j \in DOMAIN menu : ToLower(menu[j].name) # ToLower(itemName[p])
       THEN /\ report' = [report EXCEPT ![p] = "Item not found in menu"]
            /\ itemName' = [itemName EXCEPT ![p] = <<>>]
            /\ Return(p)
       ELSE /\ pc' = [pc EXCEPT ![p] = "OrderItem122"]
            /\ UNCHANGED <<stack, report, itemName>>
    /\ prevCalc' = NoCustomer
    /\ UNCHANGED <<storeVars, fused, customerName, eof, calcVars,
                   accepted, session, calc>>

\* OrderItem, lines 110-116: look the item up in the menu
OrderItemFind(p) ==
    /\ pc[p] = "OrderItem"
    /\ IF FindOne(menu, itemName[p]) = 0
       THEN /\ report' = [report EXCEPT ![p] = "Item not found in menu"]
            /\ itemName' = [itemName EXCEPT ![p] = <<>>]
            /\ Return(p)
       ELSE /\ pc' = [pc EXCEPT ![p] = "OrderItem122"]
            /\ UNCHANGED <<stack, report, itemName>>
    /\ prevCalc' = NoCustomer
    /\ UNCHANGED <<storeVars, fused, customerName, eof, calcVars,
                   accepted, session, calc>>

\* faulty variant: the update is an upsert, a missing customer is created
OrderItemUpsert(p) ==
    /\ pc[p] = "OrderItem122"
    /\ LET i == FindOne(customers, customerName[p]) IN
       IF i # 0
       THEN customers' = [customers EXCEPT
                            ![i].orderedItems = Append(@, itemName[p])]
       ELSE customers' = Append(customers,
                [Customer(customerName[p], "") EXCEPT
                    !.orderedItems = <<itemName[p]>>])
    /\ accepted' = [accepted EXCEPT ![customerName[p]] = Append(@, itemName[p])]
    /\ report' = [report EXCEPT ![p] = "Customer ordered item"]
    /\ itemName' = [itemName EXCEPT ![p] = <<>>]
    /\ Return(p)
    /\ UNCHANGED <<menu, fused, customerName, eof, calcVars,
                   session, calc, prevCalc>>

\* faulty variant: UpdateMany, the item is pushed to every customer of the name
OrderItemUpdateMany(p) ==
    /\ pc[p] = "OrderItem122"
    /\ IF Registered(customerName[p])
       THEN /\ customers' = [i \in DOMAIN customers |->
                   IF customers[i].name = customerName[p]
                   THEN [customers[i] EXCEPT
                            !.orderedItems = Append(@, itemName[p])]
                   ELSE customers[i]]
            /\ accepted' = [accepted EXCEPT
                              ![customerName[p]] = Append(@, itemName[p])]
            /\ report' = [report EXCEPT ![p] = "Customer ordered item"]
       ELSE /\ report' = [report EXCEPT ![p] = "No customer found with name"]
            /\ UNCHANGED <<customers, accepted>>
    /\ itemName' = [itemName EXCEPT ![p] = <<>>]
    /\ Return(p)
    /\ UNCHANGED <<menu, fused, customerName, eof, calcVars,
                   session, calc, prevCalc>>

\* OrderItem, lines 118-131: push the item to the first matching customer
OrderItemUpdate(p) ==
    /\ pc[p] = "OrderItem122"
    /\ LET i == FindOne(customers, customerName[p]) IN
       IF i # 0
       THEN /\ customers' = [customers EXCEPT
                               ![i].orderedItems = Push(@, itemName[p])]
            /\ accepted' = [accepted EXCEPT ![customerName[p]] = Append(@, itemName[p])]
            /\ report' = [report EXCEPT ![p] = "Customer ordered item"]
       ELSE /\ report' = [report EXCEPT ![p] = "No customer found with name"]
            /\ UNCHANGED <<customers, accepted>>
    /\ itemName' = [itemName EXCEPT ![p] = <<>>]
    /\ Return(p)
    /\ UNCHANGED <<menu, fused, customerName, eof, calcVars,
                   session, calc, prevCalc>>

InSession(p) == "PlaceOrder150" \in Range(stack[p])

\* CalculateAndStoreTotal, lines 156-170: fetch the customer, count the items
CalcFind(p) ==
    /\ pc[p] = "CalculateAndStoreTotal"
    /\ LET i == FindOne(customers, customerName[p]) IN
       IF i = 0
       THEN /\ report' = [report EXCEPT ![p] = "Customer not found."]
            /\ Return(p)
            /\ UNCHANGED <<calcVars, calc>>
       ELSE /\ customer' = [customer EXCEPT ![p] = customers[i]]
            /\ itemCounts' = [itemCounts EXCEPT
                                ![p] = CountItems(customers[i].orderedItems)]
            /\ pending' = [pending EXCEPT ![p] = Range(customers[i].orderedItems)]
            /\ totalAmount' = [totalAmount EXCEPT ![p] = Zero]
            /\ calc' = [calc EXCEPT ![p] = [NoCalc EXCEPT !.readIdx = i,
                                  !.readItems = customers[i].orderedItems]]
            /\ pc' = [pc EXCEPT ![p] = "Calc171"]
            /\ UNCHANGED <<stack, report>>
    /\ session' = [session EXCEPT
                     ![p].calcs = IF InSession(p) THEN @ + 1 ELSE @]
    /\ UNCHANGED <<storeVars, fused, customerName, itemName, eof, accepted,
                   prevCalc>>

\* one iteration of the range loop over itemCounts, in any order of the keys
CalcLoop(p) ==
    /\ pc[p] = "Calc171"
    /\ \E n \in pending[p] :
         LET j == FindOne(menu, n) IN
         /\ totalAmount' = [totalAmount EXCEPT ![p] =
                IF j # 0
                THEN Accumulate(fused, @, menu[j].price, itemCounts[p][n])
                ELSE @]
         /\ pending' = [pending EXCEPT ![p] = @ \ {n}]
    /\ UNCHANGED <<storeVars, fused, pc, stack, customerName, itemName, eof,
                   customer, itemCounts, report, histVars>>

\* CalculateAndStoreTotal, lines 179-187: overwrite totalAmount
CalcUpdate(p) ==
    /\ pc[p] = "Calc171"
    /\ pending[p] = {}
    /\ LET i == FindOne(customers, customerName[p]) IN
       /\ customers' = IF i = 0 THEN customers
                       ELSE [customers EXCEPT ![i].totalAmount = totalAmount[p]]
       /\ calc' = [calc EXCEPT ![p] =
                     IF InSession(p) /\ i # 0
                     THEN [@ EXCEPT !.storedAtWrite = customers[i].orderedItems]
                     ELSE NoCalc]
    /\ report' = [report EXCEPT ![p] = "Thank you"]
    /\ customer' = [customer EXCEPT ![p] = <<>>]
    /\ itemCounts' = [itemCounts EXCEPT ![p] = <<>>]
    /\ totalAmount' = [totalAmount EXCEPT ![p] = Zero]
    /\ itemName' = [itemName EXCEPT ![p] = <<>>]
    /\ prevCalc' = customerName[p]
    /\ Return(p)
    /\ UNCHANGED <<menu, fused, customerName, eof, pending,
                   accepted, session>>

(* ---------------------------- main ------------------------------------- *)
\* lines 212-220: connect, then call AddMenuItems
MainStart(p) ==
    /\ pc[p] = "idle"
    /\ Call(p, "AddMenuItems", "main223")
    /\ UNCHANGED <<storeVars, fused, customerName, itemName, eof, calcVars,
                   report, histVars>>

MainAddCustomer(p) ==
    /\ pc[p] = "main223"
    /\ customerName' = [customerName EXCEPT ![p] = SampleCustomer]
    /\ Call(p, "AddCustomer", "main227")
    /\ UNCHANGED <<storeVars, fused, itemName, eof, calcVars, report, histVars>>

MainPlaceOrder(p) ==
    /\ pc[p] = "main227"
    /\ customerName' = [customerName EXCEPT ![p] = SampleCustomer]
    /\ session' = [session EXCEPT ![p] =
                     [NoSession EXCEPT !.active = TRUE,
                                       !.from = Len(accepted[SampleCustomer])]]
    /\ Call(p, "PlaceOrder", "main230")
    /\ UNCHANGED <<storeVars, fused, itemName, eof, calcVars, report,
                   accepted, calc, prevCalc>>

\* lines 229-231: GetCustomers prints the collection, then main returns
MainGetCustomers(p) ==
    /\ pc[p] = "main230"
    /\ pc' = [pc EXCEPT ![p] = "exit"]
    /\ report' = [report EXCEPT ![p] = "Total Customers:"]
    /\ eof' = [eof EXCEPT ![p] = FALSE]
    /\ UNCHANGED <<storeVars, fused, stack, customerName, itemName,
                   calcVars, histVars>>

Step(p, cap) ==
    \/ AddMenuItems(p)
    \/ AddCustomer(p)
    \/ PlaceOrderRead(p, cap)
    \/ PlaceOrderReturn(p)
    \/ OrderItemFind(p)
    \/ OrderItemUpdate(p)
    \/ CalcFind(p)
    \/ CalcLoop(p)
    \/ CalcUpdate(p)

Main(p) ==
    \/ MainAddCustomer(p)
    \/ MainPlaceOrder(p)
    \/ MainGetCustomers(p)

\* the program is run again only after the previous run has ended
SeqStart(p) ==
    /\ \A q \in Procs : q < p => pc[q] = "exit"
    /\ MainStart(p)

Next == \E p \in Procs : SeqStart(p) \/ Main(p) \/ Step(p, MaxItems)

Spec == Init /\ [][Next]_vars

NextConc == \E p \in ConcProcs : MainStart(p) \/ Main(p) \/ Step(p, MaxConcItems)

SpecConc == Init /\ [][NextConc]_vars

(* ---------------------------- direct calls ----------------------------- *)
\* the caller of SpecApi is process 1; it calls one function at a time
Caller == CHOOSE p \in Procs : \A q \in Procs : p <= q

CallAddMenuItems ==
    /\ pc[Caller] = "idle"
    /\ Len(menu) < MaxSeeds * Len(menuItems)
    /\ report' = [report EXCEPT ![Caller] = ""]
    /\ Call(Caller, "AddMenuItems", "idle")
    /\ UNCHANGED <<storeVars, fused, customerName, itemName, eof, calcVars,
                   histVars>>

CallAddCustomer(name) ==
    /\ pc[Caller] = "idle"
    /\ Len(customers) < MaxCustomers
    /\ customerName' = [customerName EXCEPT ![Caller] = name]
    /\ report' = [report EXCEPT ![Caller] = ""]
    /\ Call(Caller, "AddCustomer", "idle")
    /\ UNCHANGED <<storeVars, fused, itemName, eof, calcVars, histVars>>

CallOrderItem(name, item) ==
    /\ pc[Caller] = "idle"
    /\ FindOne(menuItems, item) # 0 => Committed < MaxItems
    /\ customerName' = [customerName EXCEPT ![Caller] = name]
    /\ itemName' = [itemName EXCEPT ![Caller] = item]
    /\ report' = [report EXCEPT ![Caller] = ""]
    /\ Call(Caller, "OrderItem", "idle")
    /\ UNCHANGED <<storeVars, fused, eof, calcVars, histVars>>

CallPlaceOrder(name) ==
    /\ pc[Caller] = "idle"
    /\ customerName' = [customerName EXCEPT ![Caller] = name]
    /\ session' = [session EXCEPT ![Caller] =
                     [NoSession EXCEPT !.active = TRUE,
                                       !.from = Len(accepted[name])]]
    /\ report' = [report EXCEPT ![Caller] = ""]
    /\ Call(Caller, "PlaceOrder", "idle")
    /\ UNCHANGED <<storeVars, fused, itemName, eof, calcVars, accepted, calc, prevCalc>>

CallCalculateAndStoreTotal(name) ==
    /\ pc[Caller] = "idle"
    /\ customerName' = [customerName EXCEPT ![Caller] = name]
    /\ calc' = [calc EXCEPT ![Caller] = NoCalc]
    /\ report' = [report EXCEPT ![Caller] = ""]
    /\ Call(Caller, "CalculateAndStoreTotal", "idle")
    /\ UNCHANGED <<storeVars, fused, itemName, eof, calcVars, accepted, session, prevCalc>>

NextApi ==
    \/ CallAddMenuItems
    \/ \E name \in RegisteredArgs : CallAddCustomer(name)
    \/ \E name \in CustomerArgs, item \in ItemArgs : CallOrderItem(name, item)
    \/ \E name \in CustomerArgs : CallPlaceOrder(name)
    \/ \E name \in CustomerArgs : CallCalculateAndStoreTotal(name)
    \/ Step(Caller, MaxItems)

SpecApi == Init /\ [][NextApi]_vars

(* ---------------------------- properties ------------------------------- *)
MenuNames == {menu[j].name : j \in DOMAIN menu}

\* p takes a step of the function it is in
Moves(p) == pc'[p] # pc[p] \/ pending'[p] # pending[p]

RECURSIVE Totals(_, _, _)
\* the totals the range loop can produce from acc, over every order of keys
Totals(acc, keys, items) ==
    IF keys = {} THEN {acc}
    ELSE UNION { Totals(IF FindOne(menu, n) = 0 THEN acc
                        ELSE Accumulate(fused, acc,
                                        menu[FindOne(menu, n)].price,
                                        Occurrences(items, n)),
                        keys \ {n}, items) : n \in keys }

\* every float64 sum of price times count over the distinct names of items
PossibleTotals(items) == Totals(Zero, Range(items), items)

\* C1: after CalculateAndStoreTotal has run at the end of an ordering session,
\* the stored totalAmount of the customer equals the sum, over the distinct
\* names of its orderedItems, of price times count, in whatever order the terms
\* are added (0 for a customer without orders).
C1_TotalIsTheSum ==
    \A p \in Procs :
        pc[p] = "PlaceOrder150" /\ Registered(customerName[p]) =>
            \A t \in PossibleTotals(Record(customerName[p]).orderedItems) :
                Record(customerName[p]).totalAmount = t

\* C2: a customer document is inserted with empty orderedItems and a zero
\* totalAmount, and the orderedItems of the customer a name resolves to is
\* exactly the sequence of the items accepted for that name, in call order,
\* duplicates kept, one more per accepted call.
C2_Created ==
    Len(customers') > Len(customers) =>
        /\ Len(customers') = Len(customers) + 1
        /\ customers'[Len(customers')].orderedItems = <<>>
        /\ customers'[Len(customers')].totalAmount = Zero
        /\ \A i \in DOMAIN customers : customers'[i] = customers[i]

C2_Accepted ==
    \A p \in Procs :
        report'[p] = "Customer ordered item" /\ report[p] # report'[p] =>
            /\ pc[p] = "OrderItem122"
            /\ Registered(customerName[p])
            /\ Record(customerName[p])'.orderedItems =
                   Record(customerName[p]).orderedItems \o <<itemName[p]>>

C2_InOrder ==
    \A n \in CustomerArgs :
        IF Registered(n) THEN Record(n).orderedItems = accepted[n]
        ELSE accepted[n] = <<>>

C2_OrderedItems == [](C2_InOrder) /\ [][C2_Created /\ C2_Accepted]_vars

C2_Witness ==
    /\ Registered(SampleCustomer)
    /\ Record(SampleCustomer).orderedItems = <<Pizza, Pizza, Burger>>
    /\ \E p \in Procs : report[p] = "Customer ordered item"

\* C3: OrderItem with an item name that matches no menu document changes no
\* customer and no menu document, reports "not found", and returns; inside
\* PlaceOrder the loop is then back at its head, not ended, ready to read.
C3_NotFoundStep ==
    \A p \in Procs :
        pc[p] = "OrderItem" /\ FindOne(menu, itemName[p]) = 0 /\ Moves(p) =>
            /\ customers' = customers
            /\ menu' = menu
            /\ report'[p] = "Item not found in menu"
            /\ pc'[p] = Head(stack[p])
            /\ stack'[p] = Tail(stack[p])
            /\ Head(stack[p]) = "PlaceOrder" =>
                   /\ session'[p].active
                   /\ ~ session'[p].sentinel
                   /\ session'[p].calcs = 0

C3_LoopReads ==
    \A p \in Procs : pc[p] = "PlaceOrder" => ENABLED PlaceOrderRead(p, MaxItems)

C3_UnknownItem == [](C3_LoopReads) /\ [][C3_NotFoundStep]_vars

C3_Witness ==
    \E p \in Procs :
        /\ pc[p] = "PlaceOrder"
        /\ report[p] = "Item not found in menu"
        /\ Registered(customerName[p])
        /\ Record(customerName[p]).orderedItems # <<>>
        /\ Record(customerName[p]).totalAmount # Zero

\* C4: OrderItem with an item of the menu and a customer name that matches no
\* customer document changes no document of the store, creates no customer,
\* reports "no customer found" and returns to its caller.
C4_NoCustomerStep ==
    \A p \in Procs :
        /\ pc[p] = "OrderItem122"
        /\ ~ Registered(customerName[p])
        /\ Moves(p)
        => /\ itemName[p] \in MenuNames
           /\ customers' = customers
           /\ menu' = menu
           /\ accepted' = accepted
           /\ report'[p] = "No customer found with name"
           /\ pc'[p] = Head(stack[p])
           /\ stack'[p] = Tail(stack[p])

C4_UnknownCustomer == [][C4_NoCustomerStep]_vars

C4_Witness ==
    \E p \in Procs :
        /\ report[p] = "No customer found with name"
        /\ pc[p] = "idle"
        /\ customers # <<>>
        /\ \E i \in DOMAIN customers : customers[i].orderedItems # <<>>

\* C5: every name in every orderedItems is the name of a menu document of the
\* store, it was one when it was appended, and menu documents are never
\* removed or changed.
C5_Known ==
    \A i \in DOMAIN customers :
        \A k \in DOMAIN customers[i].orderedItems :
            customers[i].orderedItems[k] \in MenuNames

C5_AtAppend ==
    /\ \A i \in DOMAIN customers :
           customers'[i].orderedItems # customers[i].orderedItems =>
               \E x \in MenuNames :
                   customers'[i].orderedItems =
                       customers[i].orderedItems \o <<x>>
    /\ \A j \in DOMAIN menu : j \in DOMAIN menu' /\ menu'[j] = menu[j]

C5_ItemsInMenu == [](C5_Known) /\ [][C5_AtAppend]_vars

C5_Witness ==
    \E i \in DOMAIN customers :
        /\ Len(customers[i].orderedItems) >= 2
        /\ Len(menu) = Len(menuItems)

\* C6: CalculateAndStoreTotal invoked again for the same customer, right after
\* an invocation for it completed and with no OrderItem call and no menu
\* change in between, stores the same totalAmount and changes nothing else.
C6_Idempotent ==
    [][ \A p \in Procs :
          /\ pc[p] = "Calc171"
          /\ pending[p] = {}
          /\ prevCalc = customerName[p]
          /\ Moves(p)
          => customers' = customers ]_vars

\* C7: an ordering session goes Idle -> Ordering -> Idle; CalculateAndStoreTotal
\* runs exactly once in it, only after the sentinel was read and every OrderItem
\* call of the session returned, and at the end of the session the stored total
\* was computed from all the orders of the customer, those of the session
\* included.
C7_Session ==
    \A p \in Procs :
        LET s == session[p]
            n == customerName[p]
        IN  /\ s.active <=> pc[p] \in {"PlaceOrder", "OrderItem", "OrderItem122",
                          "CalculateAndStoreTotal", "Calc171", "PlaceOrder150"}
            /\ pc[p] \in {"PlaceOrder", "OrderItem", "OrderItem122"} =>
                   ~ s.sentinel /\ s.calcs = 0
            /\ pc[p] = "CalculateAndStoreTotal" => s.sentinel /\ s.calcs = 0
            /\ pc[p] = "Calc171" =>
                   /\ s.sentinel /\ s.calcs = 1
                   /\ customer[p].orderedItems = Record(n).orderedItems
            /\ pc[p] = "PlaceOrder150" =>
                   /\ s.sentinel /\ s.calcs = 1
                   /\ calc[p].readItems = Record(n).orderedItems
                   /\ calc[p].readItems = accepted[n]
                   /\ s.from <= Len(accepted[n])
                   /\ Record(n).totalAmount \in PossibleTotals(accepted[n])

C7_Witness ==
    \E p \in Procs :
        /\ pc[p] = "PlaceOrder150"
        /\ Len(accepted[customerName[p]]) >= session[p].from + 2
        /\ Record(customerName[p]).totalAmount # Zero

\* the sentinel in any mix of upper and lower case
C8_IsDone(name) ==
    /\ Len(name) = 4
    /\ name[1] \in {"d", "D"}
    /\ name[2] \in {"o", "O"}
    /\ name[3] \in {"n", "N"}
    /\ name[4] \in {"e", "E"}

C8_InLoop(p) ==
    \/ pc[p] = "PlaceOrder"
    \/ pc[p] \in {"OrderItem", "OrderItem122"} /\ Head(stack[p]) = "PlaceOrder"

\* C8: the ordering loop is left only by reading a line that trims and
\* lower-cases to "done", and it is left at once when such a line is read; any
\* other line, also one naming an unknown item or read for an unknown
\* customer, and the empty line of an exhausted input, is passed to OrderItem,
\* after which the loop is at its head again; once the input is exhausted the
\* loop is never left.
C8_LoopStep ==
    \A p \in Procs :
        /\ pc[p] = "PlaceOrder" /\ Moves(p) =>
               /\ itemName'[p] # <<>> =>
                      /\ itemName'[p][1] \notin Whitespace
                      /\ itemName'[p][Len(itemName'[p])] \notin Whitespace
               /\ IF C8_IsDone(itemName'[p])
                  THEN pc'[p] = "CalculateAndStoreTotal"
                  ELSE /\ pc'[p] = "OrderItem"
                       /\ Head(stack'[p]) = "PlaceOrder"
                       /\ ~ session'[p].sentinel
        /\ C8_InLoop(p) => C8_InLoop(p)' \/ pc'[p] = "CalculateAndStoreTotal"
        /\ C8_InLoop(p) /\ eof[p] => C8_InLoop(p)' /\ eof'[p]

C9_NoAppendLost ==
    \A n \in CustomerArgs :
        \A x \in ItemArgs :
            Occurrences(accepted[n], x) =
                IF Registered(n) THEN Occurrences(Record(n).orderedItems, x)
                ELSE 0

C9_Witness ==
    \E p \in ConcProcs :
        LET r == Record(customerName[p]) IN
        /\ pc[p] = "PlaceOrder150"
        /\ r.orderedItems = calc[p].storedAtWrite
        /\ calc[p].storedAtWrite # calc[p].readItems
        /\ r.totalAmount \in PossibleTotals(calc[p].readItems)
        /\ r.totalAmount \notin PossibleTotals(r.orderedItems)
        /\ \E q \in ConcProcs : q # p /\ pc[q] \in {"PlaceOrder", "OrderItem"}

\* C10: AddCustomer inserts without looking for the name, so two runs leave
\* two customers of one name; every step changes at most one customer
\* document, an OrderItem or CalculateAndStoreTotal step changes only the
\* first document of the name, and the total is written to the document whose
\* orderedItems were read.
C10_Step ==
    \A p \in Procs :
        Moves(p) =>
            /\ pc[p] = "AddCustomer" => Len(customers') = Len(customers) + 1
            /\ pc[p] # "AddCustomer" =>
                   /\ Len(customers') = Len(customers)
                   /\ \A i \in DOMAIN customers :
                          customers'[i] # customers[i] =>
                              /\ i = FindOne(customers, customerName[p])
                              /\ customers'[i].name = customers[i].name
                              /\ pc[p] = "Calc171" =>
                                     /\ i = calc[p].readIdx
                                     /\ customers'[i].orderedItems =
                                            customers[i].orderedItems
                              /\ pc[p] = "OrderItem122" =>
                                     customers'[i].totalAmount =
                                         customers[i].totalAmount

C10_OneRecord == [][C10_Step]_vars

C10_Witness ==
    /\ Len(customers) = 2
    /\ customers[1].name = customers[2].name
    /\ pc[2] = "PlaceOrder150"
    /\ Len(customers[1].orderedItems) > session[2].from
    /\ customers[1].totalAmount \in PossibleTotals(customers[1].orderedItems)
    /\ customers[1].totalAmount # Zero
    /\ customers[2].orderedItems = <<>>
    /\ customers[2].totalAmount = Zero

====
